---- MODULE Spec2Model ----
(***************************************************************************)
(* Model of make_hirisplex_by_sample_refaware.py: conversion of a 1KGP     *)
(* genotype matrix into a HiRisPlex-S by-sample allele-count table.        *)
(*                                                                         *)
(* Python strings are modelled as sequences of one-character strings, so   *)
(* that strip, upper, split, concatenation and len are computed, not       *)
(* assumed.  Python's None is the value None below.                        *)
(***************************************************************************)
EXTENDS Integers, Sequences, FiniteSets, TLC

VARIABLES
    call,          \* pure-function checks: the function applied last ("none" before)
    args,          \* pure-function checks: the arguments drawn in Init
    ret,           \* pure-function checks: the value(s) returned
    pc,            \* main(): position of the run
    panel,         \* main(): panel
    samples,       \* main(): samples
    matrix,        \* main(): matrix
    out_cols,      \* main(): out_cols
    rows,          \* main(): rows
    all_na_flags,  \* main(): all_na_flags
    idx,           \* main(): number of panel entries the column loop has handled
    outFile,       \* OUT_CSV on disk: opened by this run or not, rows it holds
    exitCode,      \* exit status of the process (-1 while it runs)
    stderr,        \* diagnostics written to sys.stderr
    stdout         \* the final report of main()

vars == <<call, args, ret, pc, panel, samples, matrix, out_cols, rows,
          all_na_flags, idx, outFile, exitCode, stderr, stdout>>

fnVars == <<call, args, ret>>

runVars == <<pc, panel, samples, matrix, out_cols, rows, all_na_flags, idx,
             outFile, exitCode, stderr, stdout>>

-----------------------------------------------------------------------------
(* Bounds *)

MaxRefLen == 2         \* longest ref allele drawn
MaxAltLen == 3         \* longest alt allele drawn
MaxGtLen == 3          \* longest raw genotype string drawn
MaxPanelRows == 2      \* most data rows of a panel file drawn
MaxSamples == 2        \* most sample columns of a matrix header drawn
MaxGtFields == 2       \* most genotype fields of a matrix line drawn
MaxMatrixLines == 2    \* most data lines of a matrix file drawn

-----------------------------------------------------------------------------
(* Strings *)

None == <<"None">>

StringsUpTo(alphabet, n) == UNION {[1..k -> alphabet] : k \in 0..n}

SeqsUpTo(S, n) == UNION {[1..k -> S] : k \in 0..n}

LowerLetters == <<"a", "b", "c", "d", "e", "f", "g", "h", "i", "j", "k", "l", "m",
                  "n", "o", "p", "q", "r", "s", "t", "u", "v", "w", "x", "y", "z">>

UpperLetters == <<"A", "B", "C", "D", "E", "F", "G", "H", "I", "J", "K", "L", "M",
                  "N", "O", "P", "Q", "R", "S", "T", "U", "V", "W", "X", "Y", "Z">>

ToUpper == [c \in {LowerLetters[i] : i \in 1..26} |->
                UpperLetters[CHOOSE i \in 1..26 : LowerLetters[i] = c]]

ToLower == [c \in {UpperLetters[i] : i \in 1..26} |->
                LowerLetters[CHOOSE i \in 1..26 : UpperLetters[i] = c]]

upperChar(c) == IF c \in DOMAIN ToUpper THEN ToUpper[c] ELSE c

lowerChar(c) == IF c \in DOMAIN ToLower THEN ToLower[c] ELSE c

upper(s) == [i \in 1..Len(s) |-> upperChar(s[i])]

lower(s) == [i \in 1..Len(s) |-> lowerChar(s[i])]

Whitespace == {" "}

strip(s) ==
    LET keep == {i \in 1..Len(s) : s[i] \notin Whitespace}
    IN  IF keep = {} THEN <<>>
        ELSE SubSeq(s, CHOOSE i \in keep : \A j \in keep : i <= j,
                       CHOOSE i \in keep : \A j \in keep : i >= j)

Contains(s, ch) == \E i \in 1..Len(s) : s[i] = ch

\* s.split(ch, 1) for a string that contains ch
FirstIndex(s, ch) == CHOOSE i \in 1..Len(s) : s[i] = ch /\ \A j \in 1..(i-1) : s[j] # ch

split1(s, ch) ==
    LET i == FirstIndex(s, ch)
    IN <<SubSeq(s, 1, i - 1), SubSeq(s, i + 1, Len(s))>>

-----------------------------------------------------------------------------
(* Allele orientation *)

dna_complement(base) ==
    LET b == upper(base)
    IN  IF b = <<"A">> THEN <<"T">>
        ELSE IF b = <<"T">> THEN <<"A">>
        ELSE IF b = <<"C">> THEN <<"G">>
        ELSE IF b = <<"G">> THEN <<"C">>
        ELSE None

decide_target_side_swapped(ref, alt, allele) ==
    LET r == upper(ref)
        a == upper(alt)
        t == upper(allele)
        rc == IF Len(r) = 1 THEN dna_complement(r) ELSE None
        ac == IF Len(a) = 1 THEN dna_complement(a) ELSE None
    IN  IF rc # None /\ t = rc THEN "REF"
        ELSE IF ac # None /\ t = ac THEN "ALT"
        ELSE IF t = a THEN "ALT"
        ELSE IF t = r THEN "REF"
        ELSE IF Len(t) = 1 /\ a = r \o t THEN "ALT"
        ELSE IF Len(t) = 1 /\ r = a \o t THEN "REF"
        ELSE "NONE"

decide_target_side(ref, alt, allele) ==
    LET r == upper(ref)
        a == upper(alt)
        t == upper(allele)
        rc == IF Len(r) = 1 THEN dna_complement(r) ELSE None
        ac == IF Len(a) = 1 THEN dna_complement(a) ELSE None
    IN  IF t = a THEN "ALT"
        ELSE IF t = r THEN "REF"
        ELSE IF rc # None /\ t = rc THEN "REF"
        ELSE IF ac # None /\ t = ac THEN "ALT"
        ELSE IF Len(t) = 1 /\ a = r \o t THEN "ALT"
        ELSE IF Len(t) = 1 /\ r = a \o t THEN "REF"
        ELSE "NONE"

-----------------------------------------------------------------------------
(* Genotype counting *)

str(n) == CASE n = 0 -> "0" [] n = 1 -> "1" [] n = 2 -> "2"

gt_count_for_alt_partial(gt) ==
    IF gt = <<".">> \/ gt = <<".", "/", ".">> THEN "NA"
    ELSE IF Contains(gt, "|") \/ Contains(gt, "/") THEN
        LET ab == IF Contains(gt, "|") THEN split1(gt, "|") ELSE split1(gt, "/")
        IN  IF ab[1] = <<".">> /\ ab[2] = <<".">> THEN "NA"
            ELSE str((IF ab[1] = <<"1">> THEN 1 ELSE 0) + (IF ab[2] = <<"1">> THEN 1 ELSE 0))
    ELSE IF gt = <<".">> THEN "NA"
    ELSE IF gt \notin {<<"0">>, <<"1">>} THEN "NA"
    ELSE IF gt = <<"1">> THEN "1" ELSE "0"

gt_count_for_alt(gt) ==
    IF gt = <<".">> \/ gt = <<".", "/", ".">> THEN "NA"
    ELSE IF Contains(gt, "|") \/ Contains(gt, "/") THEN
        LET ab == IF Contains(gt, "|") THEN split1(gt, "|") ELSE split1(gt, "/")
        IN  IF ab[1] = <<".">> \/ ab[2] = <<".">> THEN "NA"
            ELSE str((IF ab[1] = <<"1">> THEN 1 ELSE 0) + (IF ab[2] = <<"1">> THEN 1 ELSE 0))
    ELSE IF gt = <<".">> THEN "NA"
    ELSE IF gt \notin {<<"0">>, <<"1">>} THEN "NA"
    ELSE IF gt = <<"1">> THEN "1" ELSE "0"

gt_count_for_ref_ones(gt) == gt_count_for_alt(gt)

gt_count_for_ref(gt) ==
    IF gt = <<".">> \/ gt = <<".", "/", ".">> THEN "NA"
    ELSE IF Contains(gt, "|") \/ Contains(gt, "/") THEN
        LET ab == IF Contains(gt, "|") THEN split1(gt, "|") ELSE split1(gt, "/")
        IN  IF ab[1] = <<".">> \/ ab[2] = <<".">> THEN "NA"
            ELSE str((IF ab[1] = <<"0">> THEN 1 ELSE 0) + (IF ab[2] = <<"0">> THEN 1 ELSE 0))
    ELSE IF gt = <<".">> THEN "NA"
    ELSE IF gt \notin {<<"0">>, <<"1">>} THEN "NA"
    ELSE IF gt = <<"0">> THEN "1" ELSE "0"

\* the "Unmatched allele" branch of main()
gt_count_unmatched(gt) ==
    IF gt \in {<<".">>, <<".", "/", ".">>} THEN "NA"
    ELSE LET parts == IF Contains(gt, "|") THEN split1(gt, "|")
                      ELSE IF Contains(gt, "/") THEN split1(gt, "/")
                      ELSE <<gt>>
         IN  IF \E p \in 1..Len(parts) : parts[p] = <<".">> THEN "NA" ELSE "0"

\* the three branches of main() on side
count_for_side(side, gt) ==
    IF side = "ALT" THEN gt_count_for_alt(gt)
    ELSE IF side = "REF" THEN gt_count_for_ref(gt)
    ELSE gt_count_unmatched(gt)

-----------------------------------------------------------------------------
(* die() raises SystemExit: a function that called it returns no value *)

Died(msg) == [died |-> TRUE, msg |-> msg, value |-> <<>>]

Returned(v) == [died |-> FALSE, msg |-> "", value |-> v]

\* A file on disk: missing, of size 0, or holding rows (lists of cells / fields).
exists_nonempty(file) == file.kind = "data"

-----------------------------------------------------------------------------
(* Panel loader.  Indices are 1-based here; find_col returns 0 for None. *)

find_col(header, cands) ==
    LET hit(c) == {i \in 1..Len(header) : lower(header[i]) = lower(cands[c])}
        found == {c \in 1..Len(cands) : hit(c) # {}}
    IN  IF found = {} THEN 0
        ELSE LET c == CHOOSE x \in found : \A y \in found : x <= y
             IN  CHOOSE i \in hit(c) : \A j \in hit(c) : i <= j

SnpNames == << <<"S", "N", "P">>, <<"r", "s", "I", "D">>, <<"I", "D">> >>

AlleleNames == << <<"A", "l", "l", "e", "l", "e">>, <<"A", "L", "L", "E", "L", "E">>,
                  <<"a", "l", "l", "e", "l", "e">> >>

\* one iteration of the row loop of read_panel, without the `rsid not in seen` test
panel_step_nodedup(acc, row, snp_idx, allele_idx) ==
    IF row = <<>> \/ (IF snp_idx >= allele_idx THEN snp_idx ELSE allele_idx) > Len(row)
    THEN acc
    ELSE LET rsid == strip(row[snp_idx])
             allele == strip(row[allele_idx])
         IN  IF rsid = <<>> \/ allele = <<>> THEN acc
             ELSE [seen |-> acc.seen \cup {strip(rsid)},
                   ordered |-> Append(acc.ordered, <<strip(rsid), upper(allele)>>)]

\* one iteration of the row loop of read_panel, `seen` keyed by the untrimmed cell
panel_step_rawseen(acc, row, snp_idx, allele_idx) ==
    IF row = <<>> \/ (IF snp_idx >= allele_idx THEN snp_idx ELSE allele_idx) > Len(row)
    THEN acc
    ELSE LET rsid == strip(row[snp_idx])
             allele == strip(row[allele_idx])
         IN  IF rsid = <<>> \/ allele = <<>> THEN acc
             ELSE IF row[snp_idx] \notin acc.seen
                  THEN [seen |-> acc.seen \cup {row[snp_idx]},
                        ordered |-> Append(acc.ordered, <<strip(rsid), upper(allele)>>)]
                  ELSE acc

\* one iteration of the row loop of read_panel
panel_step(acc, row, snp_idx, allele_idx) ==
    IF row = <<>> \/ (IF snp_idx >= allele_idx THEN snp_idx ELSE allele_idx) > Len(row)
    THEN acc
    ELSE LET rsid == strip(row[snp_idx])
             allele == strip(row[allele_idx])
         IN  IF rsid = <<>> \/ allele = <<>> THEN acc
             ELSE IF strip(rsid) \notin acc.seen
                  THEN [seen |-> acc.seen \cup {strip(rsid)},
                        ordered |-> Append(acc.ordered, <<strip(rsid), upper(allele)>>)]
                  ELSE acc

RECURSIVE panel_loop(_, _, _, _)
panel_loop(acc, body, snp_idx, allele_idx) ==
    IF body = <<>> THEN acc
    ELSE panel_loop(panel_step(acc, Head(body), snp_idx, allele_idx),
                    Tail(body), snp_idx, allele_idx)

read_panel(file) ==
    IF ~exists_nonempty(file) THEN Died("Thieu file panel")
    ELSE IF file.rows = <<>> THEN Died("Panel rong")
    ELSE LET header == [i \in 1..Len(file.rows[1]) |-> strip(file.rows[1][i])]
             snp_idx == find_col(header, SnpNames)
             allele_idx == find_col(header, AlleleNames)
         IN  IF snp_idx = 0 \/ allele_idx = 0
             THEN Died("Khong tim thay cot trong panel")
             ELSE Returned(panel_loop([seen |-> {}, ordered |-> <<>>],
                                      Tail(file.rows), snp_idx, allele_idx).ordered)

\* out_cols of main(): "sampleid", then "{rs}_{allele}" per panel entry
column_id(entry) == entry[1] \o <<"_">> \o entry[2]

SampleIdName == <<"s", "a", "m", "p", "l", "e", "i", "d">>

make_out_cols(p) == <<SampleIdName>> \o [i \in 1..Len(p) |-> column_id(p[i])]

-----------------------------------------------------------------------------
(* Matrix loader.  A line is the list of its tab-separated fields; the empty *)
(* line splits into one empty field.                                        *)

MissingGt == <<".", "/", ".">>

\* one iteration of the line loop of read_matrix
matrix_step(data, fields, nsamples) ==
    IF fields = << <<>> >> THEN data
    ELSE IF Len(fields) < 5 THEN data
    ELSE LET rsid == fields[3]
             ref == fields[4]
             alt == fields[5]
             gts == SubSeq(fields, 6, Len(fields))
             padded == IF Len(gts) < nsamples
                       THEN gts \o [k \in 1..(nsamples - Len(gts)) |-> MissingGt]
                       ELSE gts
         IN  (strip(rsid) :> [REF |-> strip(ref), ALT |-> strip(alt), GT |-> padded])
             @@ data

RECURSIVE matrix_loop(_, _, _)
matrix_loop(data, lines, nsamples) ==
    IF lines = <<>> THEN data
    ELSE matrix_loop(matrix_step(data, Head(lines), nsamples), Tail(lines), nsamples)

read_matrix(file) ==
    IF ~exists_nonempty(file) THEN Died("Thieu file matrix")
    ELSE IF file.rows = <<>> THEN Died("Matrix rong")
    ELSE LET header == [i \in 1..Len(file.rows[1]) |-> strip(file.rows[1][i])]
         IN  IF Len(header) < 6 THEN Died("Header matrix khong hop le")
             ELSE LET sample_names == SubSeq(header, 6, Len(header))
                  IN  Returned([sample_names |-> sample_names,
                                data |-> matrix_loop(<<>>, Tail(file.rows),
                                                     Len(sample_names))])

-----------------------------------------------------------------------------
(* Table assembly: one iteration of the panel loop of main().  j is the      *)
(* 1-based position of the panel entry, so its column of a row is j + 1.     *)
(* rows[si] raises IndexError when a record holds more genotypes than there  *)
(* are samples.                                                              *)

fill_column_swapped(rws, flags, j, pnl, mtx) ==
    LET rsid == pnl[j][1]
        allele == pnl[j][2]
    IN  IF rsid \notin DOMAIN mtx
        THEN [crashed |-> FALSE, rows |-> rws, flags |-> flags]
        ELSE LET info == mtx[rsid]
                 side == decide_target_side(info.ALT, info.REF, allele)
                 gts == info.GT
                 val(si) == count_for_side(side, gts[si])
             IN  IF Len(gts) > Len(rws)
                 THEN [crashed |-> TRUE, rows |-> rws, flags |-> flags]
                 ELSE [crashed |-> FALSE,
                       rows |-> [si \in 1..Len(rws) |->
                                    IF si <= Len(gts)
                                    THEN [rws[si] EXCEPT ![j + 1] = val(si)]
                                    ELSE rws[si]],
                       flags |-> [flags EXCEPT ![j] =
                                    @ /\ \A si \in 1..Len(gts) : val(si) = "NA"]]

fill_column_flag_any(rws, flags, j, pnl, mtx) ==
    LET rsid == pnl[j][1]
        allele == pnl[j][2]
    IN  IF rsid \notin DOMAIN mtx
        THEN [crashed |-> FALSE, rows |-> rws, flags |-> flags]
        ELSE LET info == mtx[rsid]
                 side == decide_target_side(info.REF, info.ALT, allele)
                 gts == info.GT
                 val(si) == count_for_side(side, gts[si])
             IN  IF Len(gts) > Len(rws)
                 THEN [crashed |-> TRUE, rows |-> rws, flags |-> flags]
                 ELSE [crashed |-> FALSE,
                       rows |-> [si \in 1..Len(rws) |->
                                    IF si <= Len(gts)
                                    THEN [rws[si] EXCEPT ![j + 1] = val(si)]
                                    ELSE rws[si]],
                       flags |-> [flags EXCEPT ![j] = @ /\ Len(gts) = 0]]

fill_column(rws, flags, j, pnl, mtx) ==
    LET rsid == pnl[j][1]
        allele == pnl[j][2]
    IN  IF rsid \notin DOMAIN mtx
        THEN [crashed |-> FALSE, rows |-> rws, flags |-> flags]
        ELSE LET info == mtx[rsid]
                 side == decide_target_side(info.REF, info.ALT, allele)
                 gts == info.GT
                 val(si) == count_for_side(side, gts[si])
             IN  IF Len(gts) > Len(rws)
                 THEN [crashed |-> TRUE, rows |-> rws, flags |-> flags]
                 ELSE [crashed |-> FALSE,
                       rows |-> [si \in 1..Len(rws) |->
                                    IF si <= Len(gts)
                                    THEN [rws[si] EXCEPT ![j + 1] = val(si)]
                                    ELSE rws[si]],
                       flags |-> [flags EXCEPT ![j] =
                                    @ /\ \A si \in 1..Len(gts) : val(si) = "NA"]]

-----------------------------------------------------------------------------
(* Values of the variables a specification does not use *)

Untouched == [opened |-> FALSE, lines |-> <<>>]

NoReport == [created |-> FALSE, warned |-> <<>>, all_clear |-> FALSE]

RunIdle ==
    /\ pc = "idle"
    /\ panel = <<>>
    /\ samples = <<>>
    /\ matrix = <<>>
    /\ out_cols = <<>>
    /\ rows = <<>>
    /\ all_na_flags = <<>>
    /\ idx = 0
    /\ outFile = Untouched
    /\ exitCode = -1
    /\ stderr = <<>>
    /\ stdout = NoReport

FnIdle ==
    /\ call = "none"
    /\ args = <<>>
    /\ ret = <<>>

-----------------------------------------------------------------------------
(* decide_target_side applied to every ref, alt and target allele drawn *)

Bases == {"A", "C", "G", "T"}

RefStrings == StringsUpTo(Bases, MaxRefLen) \cup {<<"c">>, <<"a", "T">>}

AltStrings == StringsUpTo(Bases, MaxAltLen)

\* target alleles: empty, one base (either case), two bases
TargetStrings ==
    {<<>>, <<"a">>, <<"g">>} \cup {<<x>> : x \in Bases} \cup (Bases \X Bases)

InitSide ==
    /\ call = "none"
    /\ args \in RefStrings \X AltStrings \X TargetStrings
    /\ ret = "unset"
    /\ RunIdle

DecideSide ==
    /\ call = "none"
    /\ call' = "decide_target_side"
    /\ ret' = decide_target_side(args[1], args[2], args[3])
    /\ UNCHANGED <<args, runVars>>

NextSide == DecideSide

SpecSide == InitSide /\ [][NextSide]_vars

\* The complement of the claims: defined for the single bases A, T, C, G only.
CompBase == [A |-> "T", T |-> "A", C |-> "G", G |-> "C"]

HasComplement(s) == Len(s) = 1 /\ s[1] \in Bases

ComplementOf(s) == <<CompBase[s[1]]>>

IsComplementOf(t, s) == HasComplement(s) /\ t = ComplementOf(s)

\* The outcome of the first satisfied rule, in the order the claim lists them.
FirstRuleOutcome(r, a, t) ==
    LET conds == << t = a,
                    t = r,
                    IsComplementOf(t, r),
                    IsComplementOf(t, a),
                    Len(t) = 1 /\ a = r \o t,
                    Len(t) = 1 /\ r = a \o t,
                    TRUE >>
        outcomes == <<"ALT", "REF", "REF", "ALT", "ALT", "REF", "NONE">>
        first == CHOOSE i \in 1..7 : conds[i] /\ \A j \in 1..(i - 1) : ~conds[j]
    IN  outcomes[first]

\* C2: decide_target_side returns the outcome of the first satisfied rule in the
\* order exact alt, exact ref, complement of ref, complement of alt, insertion
\* (alt = ref + target), deletion (ref = alt + target), else NONE; all on the
\* uppercased strings.
ThmC2_FirstRuleWins ==
    call = "decide_target_side" =>
        ret = FirstRuleOutcome(upper(args[1]), upper(args[2]), upper(args[3]))

\* a target that is the alt exactly and also the complement of the ref: ALT
WitC2_ExactBeatsComplement ==
    /\ call = "decide_target_side"
    /\ args[3] = args[2]
    /\ IsComplementOf(args[3], args[1])
    /\ ret = "ALT"

\* C3 as claimed: for single bases x and t, t # x, decide_target_side(x+t, x, t)
\* returns REF (the deletion rule), the complement rules not being used.
CexC3_DeletionGivesRef ==
    ( /\ call = "decide_target_side"
      /\ HasComplement(args[2])
      /\ HasComplement(args[3])
      /\ args[3] # args[2]
      /\ args[1] = args[2] \o args[3] )
    => ret = "REF"

-----------------------------------------------------------------------------
(* The genotype counters applied to every raw genotype string drawn *)

GtAlphabet == {"0", "1", "2", ".", "|", "/"}

GtStrings == StringsUpTo(GtAlphabet, MaxGtLen)

Sides == {"ALT", "REF", "NONE"}

InitGT ==
    /\ call = "none"
    /\ args \in {<<g>> : g \in GtStrings}
    /\ ret = <<>>
    /\ RunIdle

CountAlt ==
    /\ "ALT" \notin DOMAIN ret
    /\ call' = "gt_count_for_alt"
    /\ ret' = ("ALT" :> gt_count_for_alt(args[1])) @@ ret
    /\ UNCHANGED <<args, runVars>>

CountRef ==
    /\ "REF" \notin DOMAIN ret
    /\ call' = "gt_count_for_ref"
    /\ ret' = ("REF" :> gt_count_for_ref(args[1])) @@ ret
    /\ UNCHANGED <<args, runVars>>

CountUnmatched ==
    /\ "NONE" \notin DOMAIN ret
    /\ call' = "gt_count_unmatched"
    /\ ret' = ("NONE" :> gt_count_unmatched(args[1])) @@ ret
    /\ UNCHANGED <<args, runVars>>

NextGT == CountAlt \/ CountRef \/ CountUnmatched

SpecGT == InitGT /\ [][NextGT]_vars

ToInt(s) == CASE s = "0" -> 0 [] s = "1" -> 1 [] s = "2" -> 2

Separators == {"|", "/"}

\* a<sep>b with a, b in {0, 1}
FullyCalledDiploid(g) ==
    Len(g) = 3 /\ g[1] \in {"0", "1"} /\ g[2] \in Separators /\ g[3] \in {"0", "1"}

OnesIn(g) == Cardinality({i \in {1, 3} : g[i] = "1"})

\* C5: on a<sep>b with a, b in {0,1} neither counter returns "NA", the REF count
\* is 2 minus the ALT count, and the ALT count is the number of "1" components.
ThmC5_RefIsTwoMinusAlt ==
    (FullyCalledDiploid(args[1]) /\ {"ALT", "REF"} \subseteq DOMAIN ret) =>
        /\ ret["ALT"] # "NA"
        /\ ret["REF"] # "NA"
        /\ ToInt(ret["REF"]) = 2 - ToInt(ret["ALT"])
        /\ ToInt(ret["ALT"]) = OnesIn(args[1])

WitC5_HomAlt ==
    /\ args[1] = <<"1", "/", "1">>
    /\ {"ALT", "REF"} \subseteq DOMAIN ret
    /\ ret["ALT"] = "2"
    /\ ret["REF"] = "0"

\* the genotype shapes section 4.4 of the specification recognizes
RecognizedShape(g) ==
    \/ g = <<".">>
    \/ g = <<".", "/", ".">>
    \/ Len(g) = 3 /\ g[1] \in {"0", "1", "."} /\ g[2] \in Separators
                  /\ g[3] \in {"0", "1", "."}
    \/ Len(g) = 1 /\ g[1] \in {"0", "1", "."}

HasMissingComponent(g) ==
    IF Len(g) = 3 THEN g[1] = "." \/ g[3] = "." ELSE g = <<".">>

\* C10: on a recognized shape every orientation returns "NA" exactly when a
\* component is missing, and NONE returns "0" on every non-missing genotype.
ThmC10_MissingIffNA ==
    RecognizedShape(args[1]) =>
        \A s \in DOMAIN ret :
            /\ (ret[s] = "NA") <=> HasMissingComponent(args[1])
            /\ (s = "NONE" /\ ~HasMissingComponent(args[1])) => ret[s] = "0"

\* a half-missing diploid genotype counted under all three orientations
WitC10_HalfMissing ==
    /\ args[1] = <<"1", "|", ".">>
    /\ DOMAIN ret = Sides
    /\ \A s \in Sides : ret[s] = "NA"

-----------------------------------------------------------------------------
(* read_panel applied to every panel file drawn *)

MissingFile == [kind |-> "missing", rows |-> <<>>]

EmptyFile == [kind |-> "empty", rows |-> <<>>]

DataFile(lines) == [kind |-> "data", rows |-> lines]

PanelCells == {<<" ">>, <<"r">>, <<" ", "r">>, <<"r", "_">>, <<"_", "r">>}

PanelRowSet == SeqsUpTo(PanelCells, 2)

HeaderSnpAllele == << <<"S", "N", "P">>, <<"A", "l", "l", "e", "l", "e">> >>

HeaderAlleleRsid == << <<" ", "a", "l", "l", "e", "l", "e">>, <<"r", "s", "i", "d">> >>

HeaderNoAllele == << <<"I", "D">>, <<"S", "N", "P">> >>

PanelHeaders == {HeaderSnpAllele, HeaderAlleleRsid, HeaderNoAllele}

PanelFiles ==
    {MissingFile, EmptyFile, DataFile(<<>>)} \cup
    {DataFile(<<h>> \o body) : h \in PanelHeaders,
                               body \in SeqsUpTo(PanelRowSet, MaxPanelRows)}

InitPanel ==
    /\ call = "none"
    /\ args \in {<<f>> : f \in PanelFiles}
    /\ ret = Returned(<<>>)
    /\ RunIdle

ReadPanel ==
    /\ call = "none"
    /\ call' = "read_panel"
    /\ ret' = read_panel(args[1])
    /\ UNCHANGED <<args, runVars>>

NextPanel == ReadPanel

SpecPanel == InitPanel /\ [][NextPanel]_vars

\* The rows the claims call valid: both cells present and non-empty after
\* trimming; each with its trimmed variant ID and trimmed, uppercased allele.
IsValidRow(row, si, ai) ==
    /\ si <= Len(row)
    /\ ai <= Len(row)
    /\ strip(row[si]) # <<>>
    /\ strip(row[ai]) # <<>>

ValidEntries(file) ==
    LET header == [i \in 1..Len(file.rows[1]) |-> strip(file.rows[1][i])]
        si == find_col(header, SnpNames)
        ai == find_col(header, AlleleNames)
        valid == SelectSeq(Tail(file.rows), LAMBDA r : IsValidRow(r, si, ai))
    IN  [k \in 1..Len(valid) |-> <<strip(valid[k][si]), upper(strip(valid[k][ai]))>>]

FirstWithId(v, id) ==
    CHOOSE k \in 1..Len(v) : v[k][1] = id /\ \A j \in 1..(k - 1) : v[j][1] # id

\* C6: read_panel returns, in input order, the first valid row of every variant
\* ID (allele uppercased) and no variant ID twice; later rows of an ID are dropped.
ThmC6_FirstOccurrenceKept ==
    (call = "read_panel" /\ ~ret.died) =>
        LET v == ValidEntries(args[1])
            p == ret.value
        IN  /\ \A i, j \in 1..Len(p) : i # j => p[i][1] # p[j][1]
            /\ {p[i][1] : i \in 1..Len(p)} = {v[k][1] : k \in 1..Len(v)}
            /\ \A i \in 1..Len(p) : p[i] = v[FirstWithId(v, p[i][1])]
            /\ \A i, j \in 1..Len(p) :
                   i < j => FirstWithId(v, p[i][1]) < FirstWithId(v, p[j][1])

\* two valid rows of one variant ID with different alleles: the second is dropped
WitC6_LaterAlleleDropped ==
    /\ call = "read_panel"
    /\ ~ret.died
    /\ Len(ValidEntries(args[1])) = 2
    /\ ValidEntries(args[1])[1][1] = ValidEntries(args[1])[2][1]
    /\ ValidEntries(args[1])[1][2] # ValidEntries(args[1])[2][2]
    /\ ret.value = <<ValidEntries(args[1])[1]>>

PairwiseDistinct(q) == \A i, j \in 1..Len(q) : i # j => q[i] # q[j]

ColumnIds(p) == [i \in 1..Len(p) |-> column_id(p[i])]

\* C9 as claimed: the column identities of every panel read_panel returns are
\* pairwise distinct.
CexC9_ColumnIdsDistinct ==
    (call = "read_panel" /\ ~ret.died) => PairwiseDistinct(ColumnIds(ret.value))

NoUnderscore(p, field) == \A i \in 1..Len(p) : ~Contains(p[i][field], "_")

\* C9 amended: when no variant ID of the returned panel contains "_", or no
\* allele does, the column identities are pairwise distinct; after "sampleid"
\* they are the output header, in panel order.
ThmC9_ColumnIdsDistinctNoUnderscore ==
    (call = "read_panel" /\ ~ret.died) =>
        LET p == ret.value
            h == make_out_cols(p)
        IN  /\ (NoUnderscore(p, 1) \/ NoUnderscore(p, 2)) =>
                    PairwiseDistinct(ColumnIds(p))
            /\ Len(h) = Len(p) + 1
            /\ h[1] = SampleIdName
            /\ \A j \in 1..Len(p) : h[j + 1] = p[j][1] \o <<"_">> \o p[j][2]

\* two entries, one variant ID holding "_", no allele holding "_"
WitC9_TwoDistinctColumns ==
    /\ call = "read_panel"
    /\ ~ret.died
    /\ Len(ret.value) = 2
    /\ ~NoUnderscore(ret.value, 1)
    /\ NoUnderscore(ret.value, 2)
    /\ PairwiseDistinct(ColumnIds(ret.value))

-----------------------------------------------------------------------------
(* The run of the script: main() and the KeyboardInterrupt handler *)

ColChrom == <<"C", "H", "R", "O", "M">>

ColPos == <<"P", "O", "S">>

ColId == <<"I", "D">>

ColRef == <<"R", "E", "F">>

ColAlt == <<"A", "L", "T">>

Digits == <<"1", "2", "3", "4", "5", "6", "7", "8", "9">>

\* sample names as the header holds them: the first with a trailing blank
SampleField(i) == IF i = 1 THEN <<"H", Digits[i], " ">> ELSE <<"H", Digits[i]>>

MatrixHeader(n) ==
    <<ColChrom, ColPos, ColId, ColRef, ColAlt>> \o [i \in 1..n |-> SampleField(i)]

\* the variants drawn: ID, REF and ALT fields, and the genotypes of the line
\* (read cyclically up to the number of genotype fields of the line)
Variants ==
    << [id |-> <<"r">>, ref |-> <<"G">>, alt |-> <<"A">>,
        gts |-> << <<"0", "|", "1">>, <<"1", "/", "1">>, <<".", "/", ".">> >>],
       [id |-> <<"r", " ">>, ref |-> <<" ", "a">>, alt |-> <<"g">>,
        gts |-> << <<"0">>, <<".", "|", "1">>, <<"0", "/", "0">> >>],
       [id |-> <<"s">>, ref |-> <<"C">>, alt |-> <<"G">>,
        gts |-> << <<".">>, <<"1", "|", "0">>, <<"1">> >>] >>

VariantLine(v, k) ==
    << <<"5">>, <<"3", "3">>, Variants[v].id, Variants[v].ref, Variants[v].alt >>
    \o [i \in 1..k |-> Variants[v].gts[((i - 1) % Len(Variants[v].gts)) + 1]]

MatrixLineSet ==
    {VariantLine(v, k) : v \in 1..Len(Variants), k \in 0..MaxGtFields}
    \cup { << <<>> >>, << <<"5">>, <<"3", "3">>, <<"r">>, <<"G">> >> }

MatrixFiles ==
    {MissingFile, EmptyFile, DataFile(<<SubSeq(MatrixHeader(1), 1, 5)>>)} \cup
    {DataFile(<<MatrixHeader(n)>> \o lines) :
        n \in 1..MaxSamples, lines \in SeqsUpTo(MatrixLineSet, MaxMatrixLines)}

RunPanelRows ==
    { << <<"r">>, <<" ", "a">> >>, << <<"s">>, <<"t">> >>, << <<"q">>, <<"c">> >> }

RunPanelFiles ==
    {MissingFile, EmptyFile, DataFile(<<>>), DataFile(<<HeaderNoAllele>>)} \cup
    {DataFile(<<HeaderSnpAllele>> \o body) : body \in SeqsUpTo(RunPanelRows, MaxPanelRows)}

Running == {"start", "read_panel", "read_matrix", "prepare", "fill",
            "write_header", "write_rows"}

Init ==
    /\ FnIdle
    /\ pc = "start"
    /\ panel = <<>>
    /\ samples = <<>>
    /\ matrix = <<>>
    /\ out_cols = <<>>
    /\ rows = <<>>
    /\ all_na_flags = <<>>
    /\ idx = 0
    /\ outFile = Untouched
    /\ exitCode = -1
    /\ stderr = <<>>
    /\ stdout = NoReport

\* die(msg, code): the message on stderr, then sys.exit(code)
die(msg, code) ==
    /\ stderr' = Append(stderr, msg)
    /\ exitCode' = code
    /\ pc' = IF code = 130 THEN "aborted" ELSE "died"

CheckOutdirOpeningOutput ==
    /\ pc = "start"
    /\ \E isdir \in BOOLEAN :
          IF isdir
          THEN /\ pc' = "read_panel"
               /\ outFile' = [opened |-> TRUE, lines |-> <<>>]
               /\ UNCHANGED <<exitCode, stderr>>
          ELSE /\ die("Thieu thu muc output", 1)
               /\ UNCHANGED outFile
    /\ UNCHANGED <<fnVars, panel, samples, matrix, out_cols, rows, all_na_flags,
                   idx, stdout>>

CheckOutdir ==
    /\ pc = "start"
    /\ \E isdir \in BOOLEAN :
          IF isdir
          THEN pc' = "read_panel" /\ UNCHANGED <<exitCode, stderr>>
          ELSE die("Thieu thu muc output", 1)
    /\ UNCHANGED <<fnVars, panel, samples, matrix, out_cols, rows, all_na_flags,
                   idx, outFile, stdout>>

LoadPanel ==
    /\ pc = "read_panel"
    /\ \E f \in RunPanelFiles :
          LET r == read_panel(f)
          IN  IF r.died THEN die(r.msg, 1) /\ UNCHANGED panel
              ELSE IF r.value = <<>>
                   THEN die("Panel khong co ban ghi hop le", 1) /\ UNCHANGED panel
                   ELSE /\ panel' = r.value
                        /\ pc' = "read_matrix"
                        /\ UNCHANGED <<exitCode, stderr>>
    /\ UNCHANGED <<fnVars, samples, matrix, out_cols, rows, all_na_flags, idx,
                   outFile, stdout>>

LoadMatrix ==
    /\ pc = "read_matrix"
    /\ \E f \in MatrixFiles :
          LET r == read_matrix(f)
          IN  IF r.died THEN die(r.msg, 1) /\ UNCHANGED <<samples, matrix>>
              ELSE /\ samples' = r.value.sample_names
                   /\ matrix' = r.value.data
                   /\ pc' = "prepare"
                   /\ UNCHANGED <<exitCode, stderr>>
    /\ UNCHANGED <<fnVars, panel, out_cols, rows, all_na_flags, idx, outFile, stdout>>

PrepareTable ==
    /\ pc = "prepare"
    /\ out_cols' = make_out_cols(panel)
    /\ rows' = [i \in 1..Len(samples) |->
                   <<samples[i]>> \o [j \in 1..Len(panel) |-> "NA"]]
    /\ all_na_flags' = [j \in 1..Len(panel) |-> TRUE]
    /\ idx' = 0
    /\ pc' = "fill"
    /\ UNCHANGED <<fnVars, panel, samples, matrix, outFile, exitCode, stderr, stdout>>

FillColumn ==
    /\ pc = "fill"
    /\ idx < Len(panel)
    /\ LET r == fill_column(rows, all_na_flags, idx + 1, panel, matrix)
       IN  IF r.crashed
           THEN /\ pc' = "crashed"
                /\ exitCode' = 1
                /\ stderr' = Append(stderr, "IndexError")
                /\ UNCHANGED <<rows, all_na_flags, idx>>
           ELSE /\ rows' = r.rows
                /\ all_na_flags' = r.flags
                /\ idx' = idx + 1
                /\ UNCHANGED <<pc, exitCode, stderr>>
    /\ UNCHANGED <<fnVars, panel, samples, matrix, out_cols, outFile, stdout>>

\* open(OUT_CSV, "w") truncates the file
OpenOutput ==
    /\ pc = "fill"
    /\ idx = Len(panel)
    /\ outFile' = [opened |-> TRUE, lines |-> <<>>]
    /\ pc' = "write_header"
    /\ UNCHANGED <<fnVars, panel, samples, matrix, out_cols, rows, all_na_flags,
                   idx, exitCode, stderr, stdout>>

WriteHeader ==
    /\ pc = "write_header"
    /\ outFile' = [outFile EXCEPT !.lines = Append(@, out_cols)]
    /\ pc' = "write_rows"
    /\ UNCHANGED <<fnVars, panel, samples, matrix, out_cols, rows, all_na_flags,
                   idx, exitCode, stderr, stdout>>

WriteRow ==
    /\ pc = "write_rows"
    /\ Len(outFile.lines) - 1 < Len(rows)
    /\ outFile' = [outFile EXCEPT !.lines = Append(@, rows[Len(outFile.lines)])]
    /\ UNCHANGED <<fnVars, pc, panel, samples, matrix, out_cols, rows, all_na_flags,
                   idx, exitCode, stderr, stdout>>

\* the file is closed; the summary and the all-NA warnings are printed
Report ==
    /\ pc = "write_rows"
    /\ Len(outFile.lines) - 1 = Len(rows)
    /\ LET warned == SelectSeq([j \in 1..Len(all_na_flags) |-> j],
                               LAMBDA j : all_na_flags[j])
       IN  stdout' = [created |-> TRUE, warned |-> warned,
                      all_clear |-> (Len(warned) = 0)]
    /\ pc' = "done"
    /\ exitCode' = 0
    /\ UNCHANGED <<fnVars, panel, samples, matrix, out_cols, rows, all_na_flags,
                   idx, outFile, stderr>>

\* KeyboardInterrupt raised inside main(); the with block closes an open file
Interrupt ==
    /\ pc \in Running
    /\ die("Bi huy boi nguoi dung", 130)
    /\ UNCHANGED <<fnVars, panel, samples, matrix, out_cols, rows, all_na_flags,
                   idx, outFile, stdout>>

Next ==
    \/ CheckOutdir
    \/ LoadPanel
    \/ LoadMatrix
    \/ PrepareTable
    \/ FillColumn
    \/ OpenOutput
    \/ WriteHeader
    \/ WriteRow
    \/ Report
    \/ Interrupt

Spec == Init /\ [][Next]_vars

Tokens == {"0", "1", "2", "NA"}

\* the columns are all filled and the table is not touched any more
AssemblyDone ==
    \/ pc = "fill" /\ idx = Len(panel)
    \/ pc \in {"write_header", "write_rows", "done"}

\* the cell of sample i and panel entry j, from the loaded panel and matrix alone
ExpectedCell(i, j) ==
    IF panel[j][1] \notin DOMAIN matrix THEN "NA"
    ELSE LET rec == matrix[panel[j][1]]
         IN  count_for_side(decide_target_side(rec.REF, rec.ALT, panel[j][2]),
                            rec.GT[i])

\* C1: after assembly the cell of sample i and panel entry j (column j + 1) is
\* "NA" when the variant has no record in the matrix, otherwise the count of
\* sample i's raw genotype under decide_target_side(ref, alt, target); it is one
\* of "0", "1", "2", "NA", and the file written holds the same cell.
ThmC1_CellIsCountUnderSide ==
    AssemblyDone =>
        /\ Len(rows) = Len(samples)
        /\ \A i \in 1..Len(samples) :
              /\ rows[i][1] = samples[i]
              /\ Len(rows[i]) = Len(panel) + 1
              /\ \A j \in 1..Len(panel) :
                    /\ rows[i][j + 1] = ExpectedCell(i, j)
                    /\ rows[i][j + 1] \in Tokens
                    /\ pc = "done" => outFile.lines[i + 1][j + 1] = ExpectedCell(i, j)

\* ref G, alt A, target A, genotype 0|1: the cell written is "1"
WitC1_HetAltGivesOne ==
    /\ pc = "done"
    /\ \E i \in 1..Len(samples), j \in 1..Len(panel) :
          /\ panel[j][2] = <<"A">>
          /\ panel[j][1] \in DOMAIN matrix
          /\ matrix[panel[j][1]].REF = <<"G">>
          /\ matrix[panel[j][1]].ALT = <<"A">>
          /\ matrix[panel[j][1]].GT[i] = <<"0", "|", "1">>
          /\ outFile.lines[i + 1][j + 1] = "1"

ColumnAllNA(j) == \A i \in 1..Len(rows) : outFile.lines[i + 1][j + 1] = "NA"

Reported(j) == \E k \in 1..Len(stdout.warned) : stdout.warned[k] = j

\* C4: a column is reported all-missing exactly when every sample's cell in it
\* is "NA"; a panel entry absent from the matrix is "NA" in every row and is
\* reported; the all-clear line is printed only when no column is all "NA".
ThmC4_ReportedIffAllNA ==
    pc = "done" =>
        /\ \A j \in 1..Len(panel) :
              /\ Reported(j) <=> ColumnAllNA(j)
              /\ panel[j][1] \notin DOMAIN matrix => ColumnAllNA(j) /\ Reported(j)
        /\ stdout.all_clear => \A j \in 1..Len(panel) : ~ColumnAllNA(j)

\* a run that reports an absent variant and a variant whose genotypes are all
\* missing, and does not report a third column
WitC4_AbsentAndMissingReported ==
    /\ pc = "done"
    /\ \E j \in 1..Len(panel) : panel[j][1] \notin DOMAIN matrix /\ Reported(j)
    /\ \E j \in 1..Len(panel) : panel[j][1] \in DOMAIN matrix /\ Reported(j)
    /\ ~stdout.all_clear

\* C7: a run that died of a configuration error has a non-zero exit status and
\* did not touch the output file; the output file is opened only when both
\* inputs are loaded and every column of the table is filled.
ThmC7_NoOutputOnConfigError ==
    /\ pc = "died" =>
          /\ exitCode # 0
          /\ stderr # <<>>
          /\ outFile = Untouched
    /\ outFile.opened =>
          /\ panel # <<>>
          /\ samples # <<>>
          /\ Len(rows) = Len(samples)
          /\ idx = Len(panel)
          /\ pc \in {"write_header", "write_rows", "done", "aborted"}

\* the panel was loaded and the matrix loader died
WitC7_MatrixLoadDied ==
    /\ pc = "died"
    /\ panel # <<>>
    /\ exitCode = 1
    /\ outFile = Untouched

\* C8 as claimed: an interrupted run ends with the abort message and status 130,
\* and the output file is either not written by the run or holds the whole table.
CexC8_InterruptLeavesNoPartialFile ==
    pc = "aborted" =>
        /\ exitCode = 130
        /\ stderr = <<"Bi huy boi nguoi dung">>
        /\ ~outFile.opened \/ outFile.lines = <<out_cols>> \o rows

====
